---- MODULE Spec2Model ----
(***************************************************************************)
(* A model of squec: the surface-code lattice (squec/surface.py), the      *)
(* covering-set solver (squec/pmss.py) and the decoder (squec/__init__.py).*)
(* Coordinates (VectorIJ) are pairs <<i, j>>.  A networkx Graph is a       *)
(* record [order, attr, adj]: the nodes in insertion order, the attributes *)
(* of each node, and for each node its neighbours in insertion order, each *)
(* as a pair <<neighbour, weight>>.                                         *)
(***************************************************************************)
EXTENDS Integers, Sequences, FiniteSets, TLC

VARIABLES
  size_ij,               \* Surface.size_ij
  origin_ij,             \* Surface.origin_ij
  graph,                 \* Surface.graph
  flipped_ancillae,      \* Surface._flipped_ancillae
  highlighted_vertices,  \* Surface._highlighted_vertices
  tie_break,             \* which of several shortest paths networkx returns
  ret,                   \* the call that has just returned, or NoCall
  pm                     \* a call of partial_min_spanning_set on its own

vars == <<size_ij, origin_ij, graph, flipped_ancillae, highlighted_vertices,
          tie_break, ret, pm>>

-----------------------------------------------------------------------------
(* Bounds of the model.                                                    *)

MinSize == 5
MaxSize == 6
MaxWidth == 12
MaxFlips == 3
MaxTie == 2
MaxVerts == 3
MaxEdges == 3
MaxWeight == 2
MinDim == 2
MaxOrigin == 1
MaxFlagged == 2
MaxExplicit == 2

-----------------------------------------------------------------------------
(* Generic helpers.                                                        *)

\* python range(lo, hi, 2) as a sequence
Range2(lo, hi) ==
  IF hi <= lo THEN <<>>
  ELSE [k \in 1..((hi - lo + 1) \div 2) |-> lo + 2 * (k - 1)]

RECURSIVE FoldLeft(_, _, _)
FoldLeft(Op(_, _), acc, s) ==
  IF s = <<>> THEN acc
  ELSE LET next == Op(acc, Head(s))
       IN  \* the comparison makes the evaluation of each step eager
           IF next = next THEN FoldLeft(Op, next, Tail(s)) ELSE next

SeqToSet(s) == {s[k] : k \in 1..Len(s)}

RECURSIVE SumSeq(_)
SumSeq(s) == IF s = <<>> THEN 0 ELSE Head(s) + SumSeq(Tail(s))

SetMax(S) == CHOOSE m \in S : \A x \in S : x <= m

-----------------------------------------------------------------------------
(* networkx.Graph, as far as the repository uses it.                       *)

NoAttr == [qubit_type |-> "none", ancilla_type |-> "none", qubit |-> FALSE]

EmptyGraph == [order |-> <<>>, attr |-> <<>>, adj |-> <<>>]

HasNode(g, n) == n \in DOMAIN g.adj

AddBareNode(g, n) ==
  IF HasNode(g, n) THEN g
  ELSE [order |-> Append(g.order, n),
        attr  |-> g.attr @@ (n :> NoAttr),
        adj   |-> g.adj @@ (n :> <<>>)]

AddNode(g, n, a) ==
  LET h == AddBareNode(g, n) IN [h EXCEPT !.attr[n] = a]

\* the adjacency of a node after (re)setting the edge to v
PutNbr(nbrs, v, w) ==
  IF \E k \in 1..Len(nbrs) : nbrs[k][1] = v
  THEN [k \in 1..Len(nbrs) |-> IF nbrs[k][1] = v THEN <<v, w>> ELSE nbrs[k]]
  ELSE Append(nbrs, <<v, w>>)

AddEdge(g, u, v, w) ==
  LET h == AddBareNode(AddBareNode(g, u), v)
  IN  [h EXCEPT !.adj[u] = PutNbr(@, v, w), !.adj[v] = PutNbr(@, u, w)]

\* a remove_node that removes nothing
RemoveNothing(g, n) == g

RemoveNode(g, n) ==
  IF ~HasNode(g, n) THEN g
  ELSE LET keep == DOMAIN g.adj \ {n}
       IN [order |-> SelectSeq(g.order, LAMBDA x : x # n),
           attr  |-> [x \in keep |-> g.attr[x]],
           adj   |-> [x \in keep |->
                        SelectSeq(g.adj[x], LAMBDA e : e[1] # n)]]

Degree(g, n) == Len(g.adj[n])

Neighbors(g, n) == [k \in 1..Len(g.adj[n]) |-> g.adj[n][k][1]]

Weight(g, u, v) ==
  LET k == CHOOSE k \in 1..Len(g.adj[u]) : g.adj[u][k][1] = v
  IN  g.adj[u][k][2]

-----------------------------------------------------------------------------
(* squec/surface.py: _create_surface_graph                                 *)

DataAttr == [qubit_type |-> "DATA", ancilla_type |-> "none", qubit |-> TRUE]

AncillaType(i, j) == IF (i + j) % 4 = 0 THEN "X" ELSE "Z"

AncillaAttr(i, j) ==
  [qubit_type |-> "ANCILLA", ancilla_type |-> AncillaType(i, j), qubit |-> TRUE]

\* the (i, j) of two nested range loops, in iteration order
LoopPairs(is, js) ==
  [k \in 1..(Len(is) * Len(js)) |->
     <<is[((k - 1) \div Len(js)) + 1], js[((k - 1) % Len(js)) + 1]>>]

\* one iteration of the data-qubit loop
DataStep(size, origin, g, ij) ==
  LET i  == ij[1]
      j  == ij[2]
      g0 == AddNode(g, ij, DataAttr)
      g1 == IF i > origin[1] + 1
            THEN AddEdge(g0, ij, <<i - 2, j>>, 2) ELSE g0
      g2 == IF i < size[1] + origin[1] - 1
            THEN AddEdge(g1, ij, <<i + 2, j>>, 2) ELSE g1
      g3 == IF j > origin[2] + 1
            THEN AddEdge(g2, ij, <<i, j - 2>>, 2) ELSE g2
      g4 == IF j < size[2] + origin[2] - 1
            THEN AddEdge(g3, ij, <<i, j + 2>>, 2) ELSE g3
  IN  g4

\* one iteration of the ancilla loop
AncillaStep(size, origin, g, ij) ==
  LET i  == ij[1]
      j  == ij[2]
      g0 == AddNode(g, ij, AncillaAttr(i, j))
      g1 == IF i > origin[1] /\ j > origin[2] /\ HasNode(g0, <<i - 1, j - 1>>)
            THEN AddEdge(g0, ij, <<i - 1, j - 1>>, 1) ELSE g0
      g2 == IF /\ i > origin[1]
               /\ j < size[2] + origin[2] - 1
               /\ HasNode(g1, <<i - 1, j + 1>>)
            THEN AddEdge(g1, ij, <<i - 1, j + 1>>, 1) ELSE g1
      g3 == IF /\ i < size[1] + origin[1] - 1
               /\ j > origin[2]
               /\ HasNode(g2, <<i + 1, j - 1>>)
            THEN AddEdge(g2, ij, <<i + 1, j - 1>>, 1) ELSE g2
      g4 == IF /\ i < size[1] + origin[1] - 1
               /\ j < size[2] + origin[2] - 1
               /\ HasNode(g3, <<i + 1, j + 1>>)
            THEN AddEdge(g3, ij, <<i + 1, j + 1>>, 1) ELSE g3
  IN  IF i = origin[1] /\ j = origin[2] THEN g
      ELSE IF i = origin[1] /\ j % 4 = 2 THEN g
      ELSE IF j = origin[2] /\ i % 4 = 0 THEN g
      ELSE g4

\* the condition of the last loop: Z ancillae on the last row of nodes,
\* X ancillae on the last column of nodes
IsBoundaryAncilla(g, n, max_i, max_j) ==
  \/ /\ g.attr[n].qubit_type = "ANCILLA"
     /\ g.attr[n].ancilla_type = "Z"
     /\ n[1] = max_i
  \/ /\ g.attr[n].ancilla_type = "X"
     /\ n[2] = max_j

create_surface_graph(size, origin) ==
  LET dataLoop == LoopPairs(Range2(origin[1] + 1, size[1] + origin[1]),
                            Range2(origin[2] + 1, size[2] + origin[2]))
      ancLoop  == LoopPairs(Range2(origin[1], size[1] + origin[1]),
                            Range2(origin[2], size[2] + origin[2]))
      DStep(g, ij) == DataStep(size, origin, g, ij)
      AStep(g, ij) == AncillaStep(size, origin, g, ij)
      DropNoQubit(g, n) == IF g.attr[n].qubit THEN g ELSE RemoveNode(g, n)
      DropDegree1(g, n) == IF Degree(g, n) = 1 THEN RemoveNode(g, n) ELSE g
      \* the three loops over list(g.nodes) that remove nodes, each over
      \* the nodes of the graph it starts from
      DropBoundaries(g1) ==
        LET max_i == SetMax({n[1] : n \in SeqToSet(g1.order)})
            max_j == SetMax({n[2] : n \in SeqToSet(g1.order)})
            DropBoundary(g, n) ==
              IF IsBoundaryAncilla(g, n, max_i, max_j)
              THEN RemoveNode(g, n) ELSE g
        IN  FoldLeft(DropBoundary, g1, g1.order)
      DropDegree1s(gq) == DropBoundaries(FoldLeft(DropDegree1, gq, gq.order))
      DropNoQubits(ga) == DropDegree1s(FoldLeft(DropNoQubit, ga, ga.order))
  IN  DropNoQubits(FoldLeft(AStep, FoldLeft(DStep, EmptyGraph, dataLoop),
                            ancLoop))

-----------------------------------------------------------------------------
(* squec/surface.py: Surface                                               *)

minimum_data_qbit_coordinate(size, origin) ==
  << IF origin[1] % 2 # 0 THEN origin[1] ELSE origin[1] + 1,
     IF origin[2] % 2 # 0 THEN origin[2] ELSE origin[2] + 1 >>

maximum_data_qbit_coordinate(size, origin) ==
  << IF (origin[1] + size[1]) % 2 # 0
       THEN origin[1] + size[1] - 2 ELSE origin[1] + size[1] - 1,
     IF (origin[2] + size[2]) % 2 # 0
       THEN origin[2] + size[2] - 2 ELSE origin[2] + size[2] - 1 >>

\* the syndrome set after flip_ancilla(ancilla_id, is_flipped); is_flipped
\* is "None" (the default), "True" or "False"
FlipAncilla(flipped, ancilla_id, is_flipped) ==
  LET f == IF is_flipped = "None" THEN ancilla_id \notin flipped
           ELSE is_flipped = "True"
  IN  IF f THEN flipped \cup {ancilla_id} ELSE flipped

\* an unflip_ancilla that discards nothing
UnflipKeeps(flipped, ancilla_id) == flipped

\* the syndrome set after unflip_ancilla(ancilla_id)
UnflipAncilla(flipped, ancilla_id) == flipped \ {ancilla_id}

get_ancilla_type(g, coord) ==
  IF HasNode(g, coord) /\ g.attr[coord].ancilla_type # "none"
  THEN g.attr[coord].ancilla_type ELSE "KeyError"

-----------------------------------------------------------------------------
(* networkx.shortest_path(g, source, target, weight="weight"): one of the  *)
(* paths of least total weight.  Which one the library returns among       *)
(* several is fixed by the library, not by this repository: the model      *)
(* takes the tie-th one (cyclically) in the order of a depth-first search  *)
(* along the adjacency lists, for a tie that is chosen once and for all.   *)

MaxEdgeWeight(g) ==
  SetMax({0} \cup UNION {{g.adj[n][k][2] : k \in 1..Len(g.adj[n])} :
                           n \in DOMAIN g.adj})

\* the nodes by their weighted distance to the target: lv[t + 1] is the set
\* of nodes at distance t; grown until the source is reached or no node is
\* left to reach
RECURSIVE GrowLevels(_, _, _, _, _)
GrowLevels(g, source, maxw, lv, settled) ==
  LET t    == Len(lv)
      back == {s \in 1..maxw : s <= t}
      new  == UNION {UNION {{g.adj[n][k][1] :
                               k \in {k \in 1..Len(g.adj[n]) :
                                        g.adj[n][k][2] = s}} :
                             n \in lv[t - s + 1]} : s \in back} \ settled
  IN  IF source \in settled THEN lv
      ELSE IF t >= maxw /\ \A s \in back : lv[t - s + 1] = {} THEN lv
      ELSE GrowLevels(g, source, maxw, Append(lv, new), settled \cup new)

\* the first limit least-weight paths from x, at distance t, to the target,
\* in depth-first order
RECURSIVE PathsFrom(_, _, _, _, _, _)
PathsFrom(g, lv, x, t, target, limit) ==
  IF x = target THEN << <<target>> >>
  ELSE LET Via(k, room) ==
             LET w  == g.adj[x][k][1]
                 tw == t - g.adj[x][k][2]
             IN  IF tw >= 0 /\ w \in lv[tw + 1]
                 THEN LET sub == PathsFrom(g, lv, w, tw, target, room)
                      IN  [m \in 1..Len(sub) |-> <<x>> \o sub[m]]
                 ELSE <<>>
           Cat(acc, k) == IF Len(acc) >= limit THEN acc
                          ELSE acc \o Via(k, limit - Len(acc))
       IN  FoldLeft(Cat, <<>>, [k \in 1..Len(g.adj[x]) |-> k])

FirstShortestPaths(g, source, target, limit) ==
  LET Through(lv) ==
        IF \E t \in 1..Len(lv) : source \in lv[t]
        THEN PathsFrom(g, lv, source,
                       (CHOOSE t \in 1..Len(lv) : source \in lv[t]) - 1,
                       target, limit)
        ELSE <<>>
  IN  Through(GrowLevels(g, source, MaxEdgeWeight(g), <<{target}>>,
                         {target}))

\* [raised, path]
shortest_path(g, source, target, tie) ==
  LET Pick(all) ==
        IF all = <<>> THEN [raised |-> "NetworkXNoPath", path |-> <<>>]
        ELSE [raised |-> "none", path |-> all[((tie - 1) % Len(all)) + 1]]
  IN  IF ~HasNode(g, source) \/ ~HasNode(g, target)
      THEN [raised |-> "NodeNotFound", path |-> <<>>]
      ELSE Pick(FirstShortestPaths(g, source, target, tie))

PathWeight(g, path) ==
  SumSeq([k \in 1..(Len(path) - 1) |-> Weight(g, path[k], path[k + 1])])

-----------------------------------------------------------------------------
(* squec/pmss.py.  The edges of the graph are a sequence, in the order of  *)
(* graph.edges, of records with fields u and v; a combination of edges is  *)
(* the set of its indices in that sequence.                                *)

edges_span_required(edges, combo, vbunch) ==
  \A i \in 1..Len(vbunch) :
    \E k \in combo : vbunch[i] = edges[k].u \/ vbunch[i] = edges[k].v

\* c comes before d in the list sorted by length: itertools.combinations
\* yields the combinations of one length in lexicographic order
EnumeratedBefore(c, d) ==
  \/ Cardinality(c) < Cardinality(d)
  \/ /\ Cardinality(c) = Cardinality(d)
     /\ c # d
     /\ LET diff == (c \ d) \cup (d \ c)
        IN  (CHOOSE m \in diff : \A x \in diff : m <= x) \in c

\* the loop that removes the supersets, one length of the sorted list at a
\* time: a combination stays unless it contains one that stayed before
FilterStep(containing, old, len) ==
  old \cup {c \in containing :
              Cardinality(c) = len /\ \A o \in old : ~(o \subseteq c)}

\* the winner taken by its place in the list alone, whatever it costs
FirstEnumerated(sets, costs) ==
  CHOOSE c \in sets : \A d \in sets : d = c \/ EnumeratedBefore(c, d)

\* min(zip(sets, costs), key=cost): the first of the cheapest ones
FirstCheapest(sets, costs) ==
  CHOOSE c \in sets :
    \A d \in sets : \/ d = c
                    \/ costs[c] < costs[d]
                    \/ costs[c] = costs[d] /\ EnumeratedBefore(c, d)

\* the cost of every edge taken as 1, whatever the attribute holds
UnitCost(edge, weight) == 1

\* edge[weight]: the attribute of the edge that the caller names
EdgeCost(edge, weight) == edge[weight]

\* [raised, value]: value is the winning list of edges (u, v)
partial_min_spanning_set(edges, required_vertices, weight) ==
  LET n == Len(edges)
      all_combinations == (SUBSET (1..n)) \ {{}}
      combinations_containing_required ==
        {c \in all_combinations :
           edges_span_required(edges, c, required_vertices)}
      Step(old, len) == FilterStep(combinations_containing_required, old, len)
      weights == [k \in 1..n |-> EdgeCost(edges[k], weight)]
      Cost(c) == SumSeq([k \in 1..n |-> IF k \in c THEN weights[k] ELSE 0])
      Listed(ks) ==
        [raised |-> "none",
         value  |-> [m \in 1..Len(ks) |-> <<edges[ks[m]].u, edges[ks[m]].v>>]]
      InOrder(best) ==
        Listed(SelectSeq([k \in 1..n |-> k], LAMBDA k : k \in best))
      Winner(possible_edge_sets) ==
        IF possible_edge_sets = {}
        THEN [raised |-> "ValueError", value |-> <<>>]
        ELSE InOrder(FirstCheapest(possible_edge_sets,
                                   [c \in possible_edge_sets |-> Cost(c)]))
  IN  Winner(FoldLeft(Step, {}, [k \in 1..n |-> k]))

-----------------------------------------------------------------------------
(* squec/__init__.py: get_metagraph                                        *)

\* the number of path nodes with an odd first coordinate
DqCount(path) == Cardinality({k \in 1..Len(path) : path[k][1] % 2 = 1})

\* networkx add_edge on the metagraph: an edge that exists keeps its place
\* and gets the new attributes
AddMetaEdge(edges, e) ==
  IF \E k \in 1..Len(edges) : {edges[k].u, edges[k].v} = {e.u, e.v}
  THEN [k \in 1..Len(edges) |->
          IF {edges[k].u, edges[k].v} = {e.u, e.v}
          THEN [e EXCEPT !.u = edges[k].u, !.v = edges[k].v]
          ELSE edges[k]]
  ELSE Append(edges, e)

MetaEdge(a, b, path, to_edge) ==
  [u |-> a, v |-> b, dq_count |-> DqCount(path), length |-> Len(path),
   is_to_edge |-> to_edge, path |-> path]

\* the "ground" node of an X ancilla
best_j_node(g, size, origin, a_u) ==
  LET min_ij == minimum_data_qbit_coordinate(size, origin)
      max_ij == maximum_data_qbit_coordinate(size, origin)
      dist_to_min_j == a_u[2] - min_ij[2]
      dist_to_max_j == max_ij[2] - a_u[2]
      col == IF dist_to_min_j < dist_to_max_j THEN min_ij[2] ELSE max_ij[2]
  IN  IF HasNode(g, <<a_u[1] - 1, col>>)
      THEN <<a_u[1] - 1, col>> ELSE <<a_u[1] + 1, col>>

\* the inner loop: the edge from a_u to vertex_set[v]
PairStep(g, vertex_set, tie, u, acc, v) ==
  LET Add(sp) ==
        IF sp.raised # "none"
        THEN [acc EXCEPT !.raised = sp.raised]
        ELSE [acc EXCEPT !.edges =
                AddMetaEdge(@, MetaEdge(vertex_set[u], vertex_set[v],
                                        sp.path, FALSE))]
  IN  IF acc.raised # "none" THEN acc
      ELSE Add(shortest_path(g, vertex_set[u], vertex_set[v], tie))

\* a ground step that gives a Z ancilla no edge and raises nothing for it
GroundStepSkippingZ(g, size, origin, tie, acc, a_u) ==
  LET type == get_ancilla_type(g, a_u)
      Add(node, sp) ==
        IF sp.raised # "none"
        THEN [acc EXCEPT !.raised = sp.raised]
        ELSE [acc EXCEPT !.edges =
                AddMetaEdge(@, MetaEdge(a_u, node, sp.path, TRUE))]
      To(node) == Add(node, shortest_path(g, a_u, node, tie))
  IN  IF acc.raised # "none" THEN acc
      ELSE IF type = "KeyError" THEN [acc EXCEPT !.raised = "KeyError"]
      ELSE IF type = "Z" THEN acc
      ELSE IF type # "X" THEN [acc EXCEPT !.raised = "NotImplementedError"]
      ELSE To(best_j_node(g, size, origin, a_u))

\* the separation of a_u to "ground"
GroundStep(g, size, origin, tie, acc, a_u) ==
  LET type == get_ancilla_type(g, a_u)
      Add(node, sp) ==
        IF sp.raised # "none"
        THEN [acc EXCEPT !.raised = sp.raised]
        ELSE [acc EXCEPT !.edges =
                AddMetaEdge(@, MetaEdge(a_u, node, sp.path, TRUE))]
      To(node) == Add(node, shortest_path(g, a_u, node, tie))
  IN  IF acc.raised # "none" THEN acc
      ELSE IF type = "KeyError" THEN [acc EXCEPT !.raised = "KeyError"]
      ELSE IF type # "X" THEN [acc EXCEPT !.raised = "NotImplementedError"]
      ELSE To(best_j_node(g, size, origin, a_u))

\* [raised, edges]: the edges of the metagraph in the order of graph.edges
get_metagraph(g, size, origin, vertex_set, tie) ==
  LET n == Len(vertex_set)
      OuterStep(acc, u) ==
        LET Inner(a, v) == PairStep(g, vertex_set, tie, u, a, v)
            paired == FoldLeft(Inner, acc, [k \in 1..(n - u) |-> u + k])
        IN  GroundStep(g, size, origin, tie, paired, vertex_set[u])
      Built(mg) == IF mg.raised # "none"
                   THEN [raised |-> mg.raised, edges |-> <<>>]
                   ELSE mg
  IN  Built(FoldLeft(OuterStep, [raised |-> "none", edges |-> <<>>],
                     [k \in 1..n |-> k]))

-----------------------------------------------------------------------------
(* squec/__init__.py: get_optimal_pairing and squec_solve.  vertex_set is  *)
(* the list after "vertex_set or state.get_flipped_ancillae()".            *)

\* [raised, value]
get_optimal_pairing(g, size, origin, vertex_set, tie) ==
  LET Cover(mg) ==
        IF mg.raised # "none" THEN [raised |-> mg.raised, value |-> <<>>]
        ELSE partial_min_spanning_set(mg.edges, vertex_set, "dq_count")
  IN  Cover(get_metagraph(g, size, origin, vertex_set, tie))

\* the single-flip test: degree 2 and on one of the four sides
IsEdgeAncilla(g, size, origin, ancilla) ==
  LET max_i == size[1] + origin[1]
      max_j == size[2] + origin[2]
      max_i_aq == IF max_i % 2 = 0 THEN max_i ELSE max_i - 1
      max_j_aq == IF max_j % 2 = 0 THEN max_j ELSE max_j - 1
  IN  /\ Degree(g, ancilla) = 2
      /\ \/ ancilla[1] = origin[1]
         \/ ancilla[2] = origin[2]
         \/ ancilla[1] = max_i_aq
         \/ ancilla[2] = max_j_aq

dq_candidates(g, ancilla) ==
  SelectSeq(Neighbors(g, ancilla), LAMBDA node : g.attr[node].qubit_type = "DATA")

\* the number of ancilla neighbours of dq that have the given polarity
SameTypeNeighbors(g, dq, ancilla_type) ==
  Len(SelectSeq(Neighbors(g, dq),
                LAMBDA node : /\ g.attr[node].qubit_type = "ANCILLA"
                              /\ g.attr[node].ancilla_type = ancilla_type))

\* the candidates the for loop would return, in the order it visits them
ValidCandidates(g, ancilla) ==
  SelectSeq(dq_candidates(g, ancilla),
            LAMBDA dq : SameTypeNeighbors(g, dq, g.attr[ancilla].ancilla_type) = 1)

\* a walk that appends every data qubit it meets and removes none
AppendStep(g, dq_to_flip, node) ==
  IF g.attr[node].qubit_type = "DATA"
  THEN Append(dq_to_flip, node) ELSE dq_to_flip

\* walking one path: a data qubit met is removed if present, else appended
ToggleStep(g, dq_to_flip, node) ==
  IF g.attr[node].qubit_type = "DATA"
  THEN IF \E k \in 1..Len(dq_to_flip) : dq_to_flip[k] = node
       THEN LET first == CHOOSE k \in 1..Len(dq_to_flip) :
                           /\ dq_to_flip[k] = node
                           /\ \A m \in 1..(k - 1) : dq_to_flip[m] # node
            IN  [m \in 1..(Len(dq_to_flip) - 1) |->
                   IF m < first THEN dq_to_flip[m] ELSE dq_to_flip[m + 1]]
       ELSE Append(dq_to_flip, node)
  ELSE dq_to_flip

WalkPaths(g, paths) ==
  LET Tog(acc, node) == ToggleStep(g, acc, node)
      Walk(acc, path) == FoldLeft(Tog, acc, path)
  IN  FoldLeft(Walk, <<>>, paths)

\* [raised, value, case, pairs, paths]: value is the list of data qubits to
\* flip; case, pairs and paths record which branch ran and its intermediates
squec_solve(g, size, origin, vertex_set, tie) ==
  LET ancilla == vertex_set[1]
      single  == /\ Len(vertex_set) = 1
      Fail(e, c) == [raised |-> e, value |-> <<>>, case |-> c,
                     pairs |-> <<>>, paths |-> <<>>]
      First(valid) ==
        IF valid # <<>>
        THEN [raised |-> "none", value |-> <<valid[1]>>,
              case |-> "single", pairs |-> <<>>, paths |-> <<>>]
        ELSE Fail("ValueError", "single")
      Walked(pairs, paths) ==
        [raised |-> "none", value |-> WalkPaths(g, paths),
         case |-> "general", pairs |-> pairs, paths |-> paths]
      WithPaths(pairs, sps) ==
        IF \E k \in 1..Len(sps) : sps[k].raised # "none"
        THEN Fail("NodeNotFound", "general")
        ELSE Walked(pairs, [k \in 1..Len(pairs) |-> sps[k].path])
      General(pairing) ==
        IF pairing.raised # "none" THEN Fail(pairing.raised, "general")
        ELSE WithPaths(pairing.value,
                       [k \in 1..Len(pairing.value) |->
                          shortest_path(g, pairing.value[k][1],
                                        pairing.value[k][2], tie)])
  IN  IF single /\ get_ancilla_type(g, ancilla) = "KeyError"
        THEN Fail("KeyError", "single")
      ELSE IF single /\ IsEdgeAncilla(g, size, origin, ancilla)
        THEN First(ValidCandidates(g, ancilla))
      ELSE General(get_optimal_pairing(g, size, origin, vertex_set, tie))

-----------------------------------------------------------------------------
(* The state machine: a Surface and a caller that calls one operation at a *)
(* time and looks at what it returned before the next call.                *)

NoCall == [op |-> "none"]

NoPm == [edges |-> <<>>, required |-> <<>>, done |-> FALSE,
         result |-> [raised |-> "none", value |-> <<>>]]

Nodes(g) == DOMAIN g.adj

Ancillae(g) == {n \in Nodes(g) : g.attr[n].qubit_type = "ANCILLA"}

DataQubits(g) == {n \in Nodes(g) : g.attr[n].qubit_type = "DATA"}

XAncillae(g) == {n \in Ancillae(g) : g.attr[n].ancilla_type = "X"}

\* the coordinates the caller passes: every ancilla, one data qubit and one
\* coordinate that is no node
CoordArgs ==
  Ancillae(graph)
    \cup {minimum_data_qbit_coordinate(size_ij, origin_ij), origin_ij}

\* c comes before d in the row-major order of the coordinates
Precedes(c, d) == c[1] < d[1] \/ (c[1] = d[1] /\ c[2] < d[2])

RECURSIVE Ascending(_)
Ascending(S) ==
  IF S = {} THEN <<>>
  ELSE LET first == CHOOSE c \in S : \A d \in S \ {c} : Precedes(c, d)
       IN  <<first>> \o Ascending(S \ {first})

RECURSIVE Ascending1(_)
Ascending1(S) ==
  IF S = {} THEN <<>>
  ELSE LET first == CHOOSE c \in S : \A d \in S : c <= d
       IN  <<first>> \o Ascending1(S \ {first})

Reverse(s) == [k \in 1..Len(s) |-> s[Len(s) + 1 - k]]

\* list(set): the order of the elements is the hash table's; the model
\* takes the row-major order and its reverse
Orderings(S) == {Ascending(S), Reverse(Ascending(S))}

\* the lattices of the model: the small square ones, and the ones of
\* MinSize rows whose width is a whole number of periods of the pattern of
\* the polarities, which is 4
Sizes ==
  {<<n, n>> : n \in MinSize..MaxSize}
    \cup {<<MinSize, m>> : m \in {w \in MaxSize..MaxWidth : w % 4 = 0}}

\* Surface(size_ij): the default origin, nothing flagged or highlighted
Init ==
  /\ size_ij \in Sizes
  /\ origin_ij = <<0, 0>>
  /\ graph = create_surface_graph(size_ij, origin_ij)
  /\ flipped_ancillae = {}
  /\ highlighted_vertices = {}
  /\ tie_break \in 1..MaxTie
  /\ ret = NoCall
  /\ pm = NoPm

Frame ==
  UNCHANGED <<size_ij, origin_ij, graph, highlighted_vertices, tie_break, pm>>

\* a decoder that clears the syndrome set of the Surface it has decoded
DecoderClearsFlips ==
  /\ flipped_ancillae' = {}
  /\ Frame

\* what a call of the decoder leaves of the Surface: it assigns no field
\* and calls no method of the Surface or of its graph that changes them
DecoderFrame ==
  /\ UNCHANGED flipped_ancillae
  /\ Frame

flip_ancilla(ancilla_id, is_flipped) ==
  /\ ret = NoCall
  /\ Cardinality(FlipAncilla(flipped_ancillae, ancilla_id, is_flipped))
       <= MaxFlips
  /\ flipped_ancillae' = FlipAncilla(flipped_ancillae, ancilla_id, is_flipped)
  /\ UNCHANGED ret
  /\ Frame

unflip_ancilla(ancilla_id) ==
  /\ ret = NoCall
  /\ flipped_ancillae' = UnflipAncilla(flipped_ancillae, ancilla_id)
  /\ UNCHANGED ret
  /\ Frame

clear_flips ==
  /\ ret = NoCall
  /\ flipped_ancillae' = {}
  /\ UNCHANGED ret
  /\ Frame

\* squec_solve(state): the list of the flagged ancillae is list(set)
SquecSolve ==
  /\ ret = NoCall
  /\ \E vertex_set \in Orderings(flipped_ancillae) :
       ret' = [op |-> "squec_solve", vertex_set |-> vertex_set,
               result |-> squec_solve(graph, size_ij, origin_ij, vertex_set,
                                      tie_break)]
  /\ DecoderFrame

\* get_optimal_pairing(state)
GetOptimalPairing ==
  /\ ret = NoCall
  /\ \E vertex_set \in Orderings(flipped_ancillae) :
       ret' = [op |-> "get_optimal_pairing", vertex_set |-> vertex_set,
               result |-> get_optimal_pairing(graph, size_ij, origin_ij,
                                              vertex_set, tie_break)]
  /\ DecoderFrame

\* get_metagraph(state)
GetMetagraph ==
  /\ ret = NoCall
  /\ \E vertex_set \in Orderings(flipped_ancillae) :
       ret' = [op |-> "get_metagraph", vertex_set |-> vertex_set,
               result |-> get_metagraph(graph, size_ij, origin_ij,
                                        vertex_set, tie_break)]
  /\ DecoderFrame

\* the caller has read the result and goes on
Return ==
  /\ ret # NoCall
  /\ ret' = NoCall
  /\ UNCHANGED flipped_ancillae
  /\ Frame

Next ==
  \/ \E x \in CoordArgs, f \in {"None", "True", "False"} : flip_ancilla(x, f)
  \/ \E x \in CoordArgs : unflip_ancilla(x)
  \/ clear_flips
  \/ SquecSolve
  \/ GetOptimalPairing
  \/ GetMetagraph
  \/ Return

Spec == Init /\ [][Next]_vars

-----------------------------------------------------------------------------
(* partial_min_spanning_set on its own: graphs on the vertices             *)
(* 1..MaxVerts with at most MaxEdges edges of weight 0..MaxWeight, and     *)
(* every non-empty list of required vertices.                              *)

VertexPairs == {p \in (1..MaxVerts) \X (1..MaxVerts) : p[1] < p[2]}

\* graph.edges of the graph that has the pairs of present, in row-major order
EdgeList(present, w) ==
  LET order == Ascending(present)
  IN  [k \in 1..Len(order) |->
         [u |-> order[k][1], v |-> order[k][2], weight |-> w[order[k]]]]

InitPM ==
  /\ size_ij = <<MinSize, MinSize>>
  /\ origin_ij = <<0, 0>>
  /\ graph = create_surface_graph(size_ij, origin_ij)
  /\ flipped_ancillae = {}
  /\ highlighted_vertices = {}
  /\ tie_break = 1
  /\ ret = NoCall
  /\ \E present \in SUBSET VertexPairs, R \in (SUBSET (1..MaxVerts)) \ {{}} :
       /\ Cardinality(present) <= MaxEdges
       /\ \E w \in [present -> 0..MaxWeight] :
            pm = [edges |-> EdgeList(present, w), required |-> Ascending1(R),
                  done |-> FALSE,
                  result |-> [raised |-> "none", value |-> <<>>]]

\* partial_min_spanning_set(graph, required_vertices)
PartialMinSpanningSet ==
  /\ ~pm.done
  /\ pm' = [pm EXCEPT !.done = TRUE,
                      !.result = partial_min_spanning_set(pm.edges,
                                                          pm.required,
                                                          "weight")]
  /\ UNCHANGED <<size_ij, origin_ij, graph, flipped_ancillae,
                 highlighted_vertices, tie_break, ret>>

NextPM == PartialMinSpanningSet

SpecPM == InitPM /\ [][NextPM]_vars

-----------------------------------------------------------------------------
(* Surface(size_ij, origin_ij) for every size of MinDim..MaxSize rows and  *)
(* columns and every origin of 0..MaxOrigin, and get_metagraph on one      *)
(* flagged X ancilla of it.                                                *)

LatticeSizes == (MinDim..MaxSize) \X (MinDim..MaxSize)

Origins == (0..MaxOrigin) \X (0..MaxOrigin)

InitLattice ==
  /\ size_ij \in LatticeSizes
  /\ origin_ij \in Origins
  /\ graph = create_surface_graph(size_ij, origin_ij)
  /\ flipped_ancillae = {}
  /\ highlighted_vertices = {}
  /\ tie_break = 1
  /\ ret = NoCall
  /\ pm = NoPm

\* flip_ancilla(ancilla_id) on a Surface with nothing flagged
FlagOne(ancilla_id) ==
  /\ flipped_ancillae = {}
  /\ flip_ancilla(ancilla_id, "None")

NextLattice ==
  \/ \E x \in XAncillae(graph) : FlagOne(x)
  \/ GetMetagraph
  \/ Return

SpecLattice == InitLattice /\ [][NextLattice]_vars

-----------------------------------------------------------------------------
(* The decoder called with its optional argument vertex_set, on a Surface  *)
(* of MaxSize rows and columns with up to MaxFlagged flagged ancillae and  *)
(* with highlighted vertices.  The argument is a record: is_none tells     *)
(* whether it is None (the default), list is the list given otherwise.     *)

NoneArg == [is_none |-> TRUE, list |-> <<>>]

\* vertex_set or state.get_flipped_ancillae(): None and the empty list
\* are both false
VertexSetOr(arg, flipped_list) ==
  IF arg.is_none \/ arg.list = <<>> THEN flipped_list ELSE arg.list

\* the arguments of the model: None, and the lists in ascending order of
\* up to MaxExplicit X ancillae
ExplicitArgs ==
  {NoneArg}
    \cup {[is_none |-> FALSE, list |-> Ascending(V)] :
            V \in {S \in SUBSET XAncillae(graph) :
                     Cardinality(S) <= MaxExplicit}}

InitCall ==
  /\ size_ij = <<MaxSize, MaxSize>>
  /\ origin_ij = <<0, 0>>
  /\ graph = create_surface_graph(size_ij, origin_ij)
  /\ flipped_ancillae = {}
  /\ highlighted_vertices = {}
  /\ tie_break = 1
  /\ ret = NoCall
  /\ pm = NoPm

\* what the three methods on the highlighted vertices leave alone
HighlightFrame ==
  UNCHANGED <<size_ij, origin_ij, graph, flipped_ancillae, tie_break, ret, pm>>

\* highlight_vertices(vertex) with one VectorIJ
highlight_vertices(vertex) ==
  /\ ret = NoCall
  /\ highlighted_vertices' = highlighted_vertices \cup {vertex}
  /\ HighlightFrame

\* unhighlight_vertices(vertex) with one VectorIJ
unhighlight_vertices(vertex) ==
  /\ ret = NoCall
  /\ highlighted_vertices' = highlighted_vertices \ {vertex}
  /\ HighlightFrame

clear_highlights ==
  /\ ret = NoCall
  /\ highlighted_vertices' = {}
  /\ HighlightFrame

\* flip_ancilla(ancilla_id) while at most MaxFlagged ancillae get flagged
FlagUpTo(ancilla_id) ==
  /\ Cardinality(flipped_ancillae \cup {ancilla_id}) <= MaxFlagged
  /\ flip_ancilla(ancilla_id, "None")

\* squec_solve(state, vertex_set)
SquecSolveOn(arg) ==
  /\ ret = NoCall
  /\ \E flipped_list \in Orderings(flipped_ancillae) :
       ret' = [op |-> "squec_solve", arg |-> arg,
               vertex_set |-> VertexSetOr(arg, flipped_list),
               result |-> squec_solve(graph, size_ij, origin_ij,
                                      VertexSetOr(arg, flipped_list),
                                      tie_break)]
  /\ DecoderFrame

\* get_optimal_pairing(state, vertex_set)
GetOptimalPairingOn(arg) ==
  /\ ret = NoCall
  /\ \E flipped_list \in Orderings(flipped_ancillae) :
       ret' = [op |-> "get_optimal_pairing", arg |-> arg,
               vertex_set |-> VertexSetOr(arg, flipped_list),
               result |-> get_optimal_pairing(graph, size_ij, origin_ij,
                                              VertexSetOr(arg, flipped_list),
                                              tie_break)]
  /\ DecoderFrame

\* get_metagraph(state, vertex_set)
GetMetagraphOn(arg) ==
  /\ ret = NoCall
  /\ \E flipped_list \in Orderings(flipped_ancillae) :
       ret' = [op |-> "get_metagraph", arg |-> arg,
               vertex_set |-> VertexSetOr(arg, flipped_list),
               result |-> get_metagraph(graph, size_ij, origin_ij,
                                        VertexSetOr(arg, flipped_list),
                                        tie_break)]
  /\ DecoderFrame

NextCall ==
  \/ \E x \in Ancillae(graph) : FlagUpTo(x)
  \/ highlight_vertices(minimum_data_qbit_coordinate(size_ij, origin_ij))
  \/ unhighlight_vertices(minimum_data_qbit_coordinate(size_ij, origin_ij))
  \/ clear_highlights
  \/ \E arg \in ExplicitArgs : SquecSolveOn(arg)
  \/ \E arg \in ExplicitArgs : GetOptimalPairingOn(arg)
  \/ \E arg \in ExplicitArgs : GetMetagraphOn(arg)
  \/ Return

SpecCall == InitCall /\ [][NextCall]_vars

-----------------------------------------------------------------------------
(* Properties of the decoder                                               *)

\* the X ancillae joined by a weight-1 edge to an odd number of the data
\* qubits of D
Syndrome(g, D) ==
  {a \in XAncillae(g) :
     Cardinality({d \in D : \E k \in 1..Len(g.adj[a]) :
                               g.adj[a][k] = <<d, 1>>}) % 2 = 1}

\* a decode call on a non-empty list of X ancillae has returned a value
ReturnedForX(op) ==
  /\ ret.op = op
  /\ ret.vertex_set # <<>>
  /\ SeqToSet(ret.vertex_set) \subseteq XAncillae(graph)
  /\ ret.result.raised = "none"

\* the number of selected pairs that a is an endpoint of
PairsAt(pairs, a) ==
  Cardinality({k \in 1..Len(pairs) : pairs[k][1] = a \/ pairs[k][2] = a})

\* C1: for every non-empty set F of flagged X ancillae, the flip set that
\* squec_solve returns is consistent with the syndrome: an X ancilla is
\* joined by a weight-1 edge to an odd number of its data qubits if and
\* only if it belongs to F.
C1_CorrectionConsistent ==
  ReturnedForX("squec_solve") =>
    Syndrome(graph, SeqToSet(ret.result.value)) = SeqToSet(ret.vertex_set)

\* C4: for any set of flagged X ancillae, every flagged ancilla is an
\* endpoint of exactly one pair of the pairing that get_optimal_pairing
\* returns.
C4_ExactMatching ==
  ReturnedForX("get_optimal_pairing") =>
    \A a \in SeqToSet(ret.vertex_set) : PairsAt(ret.result.value, a) = 1

\* the total weight of the edges of pm.edges with their index in c
PmCost(c) ==
  SumSeq([k \in 1..Len(pm.edges) |->
            IF k \in c THEN pm.edges[k].weight ELSE 0])

\* the edges with their index in c cover the required vertices
PmCovers(c) ==
  \A r \in SeqToSet(pm.required) :
    \E k \in c : pm.edges[k].u = r \/ pm.edges[k].v = r

\* the indices of the returned edges
PmReturned ==
  {k \in 1..Len(pm.edges) :
     <<pm.edges[k].u, pm.edges[k].v>> \in SeqToSet(pm.result.value)}

\* the call is over and every required vertex has an incident edge
PmCalledWithCover == pm.done /\ PmCovers(1..Len(pm.edges))

\* C2: on a graph with non-negative weights and a non-empty required set
\* R whose vertices all have an incident edge, partial_min_spanning_set
\* returns edges of the graph that cover R, and no set of edges that covers
\* R weighs less.
C2_MinimumWeightCover ==
  PmCalledWithCover =>
    /\ pm.result.raised = "none"
    /\ Cardinality(PmReturned) = Len(pm.result.value)
    /\ PmCovers(PmReturned)
    /\ \A c \in SUBSET (1..Len(pm.edges)) :
         PmCovers(c) => PmCost(PmReturned) <= PmCost(c)

\* a call in which the cheapest cover is not a smallest one: it has an
\* edge of weight zero and more edges than another cover
C2_Witness ==
  /\ PmCalledWithCover
  /\ pm.result.raised = "none"
  /\ \E k \in PmReturned : pm.edges[k].weight = 0
  /\ \E c \in SUBSET (1..Len(pm.edges)) :
       PmCovers(c) /\ Cardinality(c) < Cardinality(PmReturned)

\* the indices of the metagraph edges that the pairing selected
Selected(mg, pairs) ==
  {k \in 1..Len(mg) : <<mg[k].u, mg[k].v>> \in SeqToSet(pairs)}

\* every flagged ancilla is an endpoint of a metagraph edge with index in c
MetaCovers(mg, c) ==
  \A a \in SeqToSet(ret.vertex_set) : \E k \in c : mg[k].u = a \/ mg[k].v = a

\* the sum of the lattice edge weights along the paths of the edges in c
LatticePathWeight(mg, c) ==
  SumSeq([k \in 1..Len(mg) |->
            IF k \in c THEN PathWeight(graph, mg[k].path) ELSE 0])

\* the number of data qubits along the paths of the edges in c
DqTotal(mg, c) ==
  SumSeq([k \in 1..Len(mg) |-> IF k \in c THEN mg[k].dq_count ELSE 0])

\* the metagraph of the call that has returned
MetagraphOfCall ==
  get_metagraph(graph, size_ij, origin_ij, ret.vertex_set, tie_break).edges

PairingReturned ==
  ret.op = "get_optimal_pairing" /\ ret.result.raised = "none"

\* C3: the total lattice path weight of the pairing that
\* get_optimal_pairing returns is at most that of every other set of
\* metagraph edges that covers every flagged ancilla.
C3_PathWeightMinimal ==
  PairingReturned =>
    LET mg == MetagraphOfCall
        chosen == LatticePathWeight(mg, Selected(mg, ret.result.value))
    IN  \A c \in SUBSET (1..Len(mg)) :
          MetaCovers(mg, c) => chosen <= LatticePathWeight(mg, c)

\* C3, as the code has it: the pairing that get_optimal_pairing returns
\* covers every flagged ancilla, and the number of data qubits along its
\* paths is at most that of every other set of metagraph edges that covers
\* every flagged ancilla.
C3_DqCountMinimal ==
  PairingReturned =>
    LET mg == MetagraphOfCall
        chosen == DqTotal(mg, Selected(mg, ret.result.value))
    IN  /\ MetaCovers(mg, Selected(mg, ret.result.value))
        /\ \A c \in SUBSET (1..Len(mg)) :
             MetaCovers(mg, c) => chosen <= DqTotal(mg, c)

\* a pairing that another cover beats in lattice path weight while having
\* more data qubits along its paths
C3_Witness ==
  /\ PairingReturned
  /\ LET mg == MetagraphOfCall
         sel == Selected(mg, ret.result.value)
     IN  \E c \in SUBSET (1..Len(mg)) :
           /\ MetaCovers(mg, c)
           /\ DqTotal(mg, c) > DqTotal(mg, sel)
           /\ LatticePathWeight(mg, c) < LatticePathWeight(mg, sel)

\* C5: for every coordinate x and every reachable syndrome set, also one
\* that holds x already, flip_ancilla(x) followed by unflip_ancilla(x)
\* leaves the syndrome set as it was before the two calls.
C5_FlipUnflipRestores ==
  \A x \in CoordArgs :
    UnflipAncilla(FlipAncilla(flipped_ancillae, x, "None"), x)
      = flipped_ancillae

\* C5, as the code has it: flip_ancilla(x) followed by unflip_ancilla(x)
\* leaves the syndrome set as it was before the two calls but without x;
\* this is the set of before exactly when x was not flagged.
C5_FlipUnflipRemoves ==
  \A x \in CoordArgs :
    LET after == UnflipAncilla(FlipAncilla(flipped_ancillae, x, "None"), x)
    IN  /\ after = flipped_ancillae \ {x}
        /\ (after = flipped_ancillae) <=> (x \notin flipped_ancillae)

\* a syndrome set, reached by flip_ancilla, that holds one of the
\* coordinates and lacks another
C5_Witness ==
  \E x, y \in CoordArgs :
    x \in flipped_ancillae /\ y \notin flipped_ancillae

\* C6: after construction and after any sequence of flip_ancilla,
\* unflip_ancilla and clear_flips, every coordinate of the syndrome set is
\* an ANCILLA node of the lattice graph.
C6_FlaggedAreAncillae == flipped_ancillae \subseteq Ancillae(graph)

\* how often d occurs over all the paths
Occurrences(paths, d) ==
  SumSeq([k \in 1..Len(paths) |->
            Cardinality({m \in 1..Len(paths[k]) : paths[k][m] = d})])

\* how often d occurs in the list
TimesIn(list, d) == Cardinality({k \in 1..Len(list) : list[k] = d})

GeneralCaseReturned ==
  /\ ret.op = "squec_solve"
  /\ ret.result.raised = "none"
  /\ ret.result.case = "general"

\* C7: in the general case of squec_solve a data qubit is once in the
\* returned list if it occurs an odd number of times over the shortest
\* paths of the selected pairs and is not in it if it occurs an even number
\* of times; no ancilla is in the returned list.
C7_ToggleParity ==
  GeneralCaseReturned =>
    /\ \A d \in DataQubits(graph) :
         TimesIn(ret.result.value, d)
           = Occurrences(ret.result.paths, d) % 2
    /\ SeqToSet(ret.result.value) \subseteq DataQubits(graph)

\* a general-case result with a data qubit that two paths share, which is
\* left out, and one on a single path, which is returned
C7_Witness ==
  /\ GeneralCaseReturned
  /\ \E d, e \in DataQubits(graph) :
       /\ Occurrences(ret.result.paths, d) = 2
       /\ Occurrences(ret.result.paths, e) = 1

\* squec_solve has been called with the one ancilla a, which has two
\* lattice connections and lies on one of the four sides
SingleOnBoundary(a) ==
  /\ ret.op = "squec_solve"
  /\ ret.vertex_set = <<a>>
  /\ a \in Ancillae(graph)
  /\ IsEdgeAncilla(graph, size_ij, origin_ij, a)

\* the data qubits next to a
DataNeighbours(a) == {d \in DataQubits(graph) : d \in SeqToSet(Neighbors(graph, a))}

\* the data qubits next to a whose only ancilla neighbour of a's polarity
\* is a
Qualifying(a) ==
  {d \in DataNeighbours(a) :
     {n \in Ancillae(graph) :
        /\ n \in SeqToSet(Neighbors(graph, d))
        /\ graph.attr[n].ancilla_type = graph.attr[a].ancilla_type} = {a}}

\* C8: for every ancilla with exactly two lattice connections on one of the
\* four lattice boundaries, squec_solve with that ancilla as the only
\* flagged one raises no error and returns exactly one data qubit, a
\* neighbour of the ancilla.
C8_BoundarySingleResolves ==
  \A a \in Ancillae(graph) :
    SingleOnBoundary(a) =>
      /\ ret.result.raised = "none"
      /\ Len(ret.result.value) = 1
      /\ ret.result.value[1] \in DataNeighbours(a)

\* C9: in the single-flagged-ancilla case of squec_solve, if none of the
\* two neighbouring data qubits qualifies or both of them qualify, the call
\* fails with the ambiguous-topology error and returns no flip set.
C9_NoneOrBothFails ==
  \A a \in Ancillae(graph) :
    (SingleOnBoundary(a) /\ Cardinality(Qualifying(a)) \in {0, 2}) =>
      ret.result.raised = "ValueError" /\ ret.result.value = <<>>

\* get_metagraph has been called with a list of ancillae that holds one of
\* polarity Z
MetagraphCalledWithZ ==
  /\ ret.op = "get_metagraph"
  /\ SeqToSet(ret.vertex_set) \subseteq Ancillae(graph)
  /\ \E a \in SeqToSet(ret.vertex_set) : graph.attr[a].ancilla_type = "Z"

\* C10: get_metagraph over a flagged list that contains a Z ancilla
\* completes without error; the Z ancilla gets its ancilla-ancilla edges
\* but no boundary edge.
C10_ZCompletes ==
  MetagraphCalledWithZ =>
    /\ ret.result.raised = "none"
    /\ \A k \in 1..Len(ret.result.edges) :
         ret.result.edges[k].is_to_edge =>
           graph.attr[ret.result.edges[k].u].ancilla_type = "X"

\* C10, as the code has it: get_metagraph over a flagged list of ancillae
\* that contains a Z ancilla raises the unimplemented-feature error and
\* yields no metagraph.
C10_ZRaisesUnimplemented ==
  MetagraphCalledWithZ =>
    /\ ret.result.raised = "NotImplementedError"
    /\ ret.result.edges = <<>>

\* a call whose list holds an X ancilla before a Z ancilla: the edges of
\* the X ancilla are made before the error is raised
C10_Witness ==
  /\ MetagraphCalledWithZ
  /\ Len(ret.vertex_set) >= 2
  /\ graph.attr[ret.vertex_set[1]].ancilla_type = "X"
  /\ ret.result.raised = "NotImplementedError"

\* C11: squec_solve on a Surface with nothing flagged, called without an
\* explicit vertex set, raises no error and returns the empty flip set.
C11_EmptySyndromeDecodes ==
  (ret.op = "squec_solve" /\ flipped_ancillae = {} /\ ret.vertex_set = <<>>)
    => (ret.result.raised = "none" /\ ret.result.value = <<>>)

\* C17: with the default origin, the ancilla candidates left out on the
\* origin row (j mod 4 = 2) have polarity X and those left out on the
\* origin column (i mod 4 = 0) have polarity Z, so every ancilla of the
\* lattice on the origin row is Z and every one on the origin column is X.
C17_OriginRowZColumnX ==
  origin_ij = <<0, 0>> =>
    /\ \A j \in 1..size_ij[2] : j % 4 = 2 => AncillaType(0, j) = "X"
    /\ \A i \in 1..size_ij[1] : i % 4 = 0 => AncillaType(i, 0) = "Z"
    /\ \A a \in Ancillae(graph) :
         /\ a[1] = 0 => graph.attr[a].ancilla_type = "Z"
         /\ a[2] = 0 => graph.attr[a].ancilla_type = "X"

-----------------------------------------------------------------------------
(* Properties of the lattice                                               *)

\* the remainder of n - o modulo 2, for n - o of either sign
Parity(n, o) == (n - o + 2 * (MaxOrigin + 1)) % 2

SetMin(S) == CHOOSE m \in S : \A x \in S : m <= x

\* C14: for every size and every origin of a Surface with at least one
\* data qubit, minimum_data_qbit_coordinate is the component-wise minimum
\* and maximum_data_qbit_coordinate the component-wise maximum of the
\* coordinates of the DATA nodes of its graph.
C14_DataExtremes ==
  DataQubits(graph) # {} =>
    /\ minimum_data_qbit_coordinate(size_ij, origin_ij)
         = << SetMin({n[1] : n \in DataQubits(graph)}),
              SetMin({n[2] : n \in DataQubits(graph)}) >>
    /\ maximum_data_qbit_coordinate(size_ij, origin_ij)
         = << SetMax({n[1] : n \in DataQubits(graph)}),
              SetMax({n[2] : n \in DataQubits(graph)}) >>

\* get_metagraph has been called with one flagged ancilla, of polarity X
MetagraphCalledWithOneX ==
  /\ ret.op = "get_metagraph"
  /\ Len(ret.vertex_set) = 1
  /\ ret.vertex_set[1] \in XAncillae(graph)

\* the columns that hold a data qubit
DataColumns == {n[2] : n \in DataQubits(graph)}

\* the data column nearest to a: the minimum one when a is
\* strictly closer to it, the maximum one otherwise
NearColumn(a) ==
  IF a[2] - SetMin(DataColumns) < SetMax(DataColumns) - a[2]
  THEN SetMin(DataColumns) ELSE SetMax(DataColumns)

\* the boundary target of a: the node of that column in the row above a if it exists, else in the row below
BoundaryTarget(a) ==
  IF HasNode(graph, <<a[1] - 1, NearColumn(a)>>)
  THEN <<a[1] - 1, NearColumn(a)>> ELSE <<a[1] + 1, NearColumn(a)>>

\* C15: for every X ancilla a of a constructed lattice, get_metagraph with
\* a flagged raises nothing and adds exactly one boundary edge, from a to
\* a node of the lattice: in the minimum data column when a is strictly
\* closer to it and in the maximum data column otherwise, in row a.i - 1
\* if that node exists and in row a.i + 1 otherwise.
C15_BoundaryEdgeToNode ==
  MetagraphCalledWithOneX =>
    /\ DataColumns # {}
    /\ HasNode(graph, BoundaryTarget(ret.vertex_set[1]))
    /\ ret.result.raised = "none"
    /\ Len(ret.result.edges) = 1
    /\ ret.result.edges[1].is_to_edge
    /\ ret.result.edges[1].u = ret.vertex_set[1]
    /\ ret.result.edges[1].v = BoundaryTarget(ret.vertex_set[1])

-----------------------------------------------------------------------------
(* Properties of the calls of the decoder                                  *)

\* C12: a call of squec_solve, get_optimal_pairing or get_metagraph,
\* whether it returns or raises, leaves the syndrome set, the highlighted
\* set and the lattice graph of the Surface as they were before the call.
C12_DecoderLeavesSurface ==
  [][(ret = NoCall /\ ret' # NoCall) =>
       /\ flipped_ancillae' = flipped_ancillae
       /\ highlighted_vertices' = highlighted_vertices
       /\ graph' = graph]_vars

\* a decode that raised on a Surface with a flagged ancilla and a
\* highlighted vertex
C12_Witness ==
  /\ ret.op = "squec_solve"
  /\ ret.result.raised # "none"
  /\ flipped_ancillae # {}
  /\ highlighted_vertices # {}

\* the result of the call op on a Surface whose flagged ancillae are V
ResultFor(op, V) ==
  IF op = "squec_solve"
  THEN squec_solve(graph, size_ij, origin_ij, V, tie_break)
  ELSE get_optimal_pairing(graph, size_ij, origin_ij, V, tie_break)

\* C16: the result of squec_solve or get_optimal_pairing called with an
\* explicit list V of any size, the empty one included, is the result for
\* a Surface whose syndrome is exactly V, whatever is flagged on the
\* Surface.
C16_ExplicitSetDecides ==
  (ret.op \in {"squec_solve", "get_optimal_pairing"} /\ ~ret.arg.is_none)
    => \E V \in Orderings(SeqToSet(ret.arg.list)) :
         ret.result = ResultFor(ret.op, V)

====
